---- MODULE Spec2Model ----
(***************************************************************************)
(* Model of the order/bot dispatch logic of src/src/App.vue.               *)
(*                                                                         *)
(* Order and Bot objects live in two heaps (heapOrders, heapBots); the     *)
(* reactive arrays hold references (heap indices), because the code keeps  *)
(* mutating objects it reaches through closures after they left a list.    *)
(* Pending setTimeout callbacks are the sequence `timers`: every callback  *)
(* is scheduled with the same delay, so they fire in scheduling order.     *)
(* Each action is one macrotask of the event loop: the handler body        *)
(* followed by the flush of the deep watcher of line 146.                  *)
(* `hist` is a history variable: the operation of the last step, the state *)
(* right after the handler body (before the assignment pass it triggers)   *)
(* and the assignments made during the step; `requeued` is the set of       *)
(* orders that a handler body ever moved from processingOrders back to     *)
(* pendingOrders; `fired` is the set of (order, bot) callbacks that have    *)
(* run.                                                                    *)
(***************************************************************************)
EXTENDS Integers, Sequences, FiniteSets, TLC

VARIABLES pendingOrders, processingOrders, completedOrders, bots,
          normalOrderCount, vipOrderCount, botId,
          heapOrders, heapBots, timers, hist, requeued, fired

vars == <<pendingOrders, processingOrders, completedOrders, bots,
          normalOrderCount, vipOrderCount, botId,
          heapOrders, heapBots, timers, hist, requeued, fired>>

\* Bounds of the model: orders and bots created in one behaviour.
MaxOrders == 3
MaxBots == 2

\* ---------------------------------------------------------------------
\* Values

\* `undefined` of an optional field (processedByBot?, processedAt?)
Undefined == <<>>

\* new Date().toLocaleTimeString(): wall-clock text, abstracted to a token
Now == <<"time">>

\* `O-${n}` / `VIP-${n}`
OrderName(isVip, n) == <<IF isVip THEN "VIP" ELSE "O", n>>

\* `Bot-${id}`
BotName(id) == <<"Bot", id>>

\* ---------------------------------------------------------------------
\* Array helpers (0-based indices, as in the source)

\* Array.prototype.indexOf: first 0-based index of x, -1 if absent
IndexOf(seq, x) ==
  IF \E i \in 1..Len(seq) : seq[i] = x
  THEN (CHOOSE i \in 1..Len(seq) : seq[i] = x /\ \A j \in 1..(i-1) : seq[j] # x) - 1
  ELSE -1

\* Array.prototype.splice(start, 0, x): insert x at 0-based index start
SpliceInsert(seq, start, x) ==
  SubSeq(seq, 1, start) \o <<x>> \o SubSeq(seq, start + 1, Len(seq))

\* Array.prototype.splice(idx, 1): delete the element at 0-based index idx
SpliceDelete(seq, idx) ==
  SubSeq(seq, 1, idx) \o SubSeq(seq, idx + 2, Len(seq))

\* ---------------------------------------------------------------------
\* The program state as one record, so that handlers compose

State ==
  [pendingOrders |-> pendingOrders, processingOrders |-> processingOrders,
   completedOrders |-> completedOrders, bots |-> bots,
   normalOrderCount |-> normalOrderCount, vipOrderCount |-> vipOrderCount,
   botId |-> botId, heapOrders |-> heapOrders, heapBots |-> heapBots,
   timers |-> timers, log |-> <<>>]

\* createOrder: a fresh Order object
createOrder(name, isVip) ==
  [name |-> name, isVip |-> isVip, time |-> Now,
   processedByBot |-> Undefined, processedAt |-> Undefined]

\* lastVipIndex computed with indexOf(true), the first VIP order, instead of lastIndexOf
lastVipIndex_first(s) ==
  LET vip == {i \in 1..Len(s.pendingOrders) : s.heapOrders[s.pendingOrders[i]].isVip}
  IN IF vip = {} THEN -1
     ELSE (CHOOSE i \in vip : \A j \in vip : i <= j) - 1

\* pendingOrders.map(o => o.isVip).lastIndexOf(true)
lastVipIndex(s) ==
  LET vip == {i \in 1..Len(s.pendingOrders) : s.heapOrders[s.pendingOrders[i]].isVip}
  IN IF vip = {} THEN -1
     ELSE (CHOOSE i \in vip : \A j \in vip : j <= i) - 1

\* queueOrder that puts every VIP order at the front (always unshift)
queueOrder_vipUnshift(s, order) ==
  IF s.heapOrders[order].isVip
  THEN [s EXCEPT !.pendingOrders = <<order>> \o @]
  ELSE [s EXCEPT !.pendingOrders = Append(@, order)]

\* queueOrder that ignores isVip (always push)
queueOrder_alwaysPush(s, order) ==
  [s EXCEPT !.pendingOrders = Append(@, order)]

\* queueOrder: order is a reference into heapOrders
queueOrder(s, order) ==
  IF s.heapOrders[order].isVip
  THEN IF lastVipIndex(s) >= 0
       THEN [s EXCEPT !.pendingOrders = SpliceInsert(@, lastVipIndex(s) + 1, order)]
       ELSE [s EXCEPT !.pendingOrders = <<order>> \o @]
  ELSE [s EXCEPT !.pendingOrders = Append(@, order)]

\* addNormalOrder
addNormalOrder(s) ==
  LET n == s.normalOrderCount + 1
      s1 == [s EXCEPT !.normalOrderCount = n,
                      !.heapOrders = Append(@, createOrder(OrderName(FALSE, n), FALSE))]
  IN queueOrder(s1, Len(s1.heapOrders))

\* addVipOrder
addVipOrder(s) ==
  LET n == s.vipOrderCount + 1
      s1 == [s EXCEPT !.vipOrderCount = n,
                      !.heapOrders = Append(@, createOrder(OrderName(TRUE, n), TRUE))]
  IN queueOrder(s1, Len(s1.heapOrders))

\* addBot that numbers the new bot after the size of the pool (bots.length + 1)
addBot_idFromLength(s) ==
  LET id == Len(s.bots) + 1
      s1 == [s EXCEPT !.botId = id,
                      !.heapBots = Append(@, [id |-> id, name |-> BotName(id), status |-> "IDLE"])]
  IN [s1 EXCEPT !.bots = Append(@, Len(s1.heapBots))]

\* addBot
addBot(s) ==
  LET id == s.botId + 1
      s1 == [s EXCEPT !.botId = id,
                      !.heapBots = Append(@, [id |-> id, name |-> BotName(id), status |-> "IDLE"])]
  IN [s1 EXCEPT !.bots = Append(@, Len(s1.heapBots))]

\* processingOrders.find(o => o.processedByBot === name): first match, 0 if none
findProcessedBy(s, name) ==
  LET hits == {i \in 1..Len(s.processingOrders) :
                 s.heapOrders[s.processingOrders[i]].processedByBot = name}
  IN IF hits = {} THEN 0
     ELSE s.processingOrders[CHOOSE i \in hits : \A j \in hits : i <= j]

\* dropOrderBack without the filter that takes the order out of processingOrders
dropOrderBack_keepsProcessing(s, latestBot) ==
  LET o == findProcessedBy(s, s.heapBots[latestBot].name)
  IN IF o # 0
     THEN queueOrder([s EXCEPT !.heapOrders[o].processedByBot = Undefined], o)
     ELSE s

\* dropOrderBack that pushes the order to the end instead of calling queueOrder
dropOrderBack_pushesBack(s, latestBot) ==
  LET o == findProcessedBy(s, s.heapBots[latestBot].name)
  IN IF o # 0
     THEN [s EXCEPT !.heapOrders[o].processedByBot = Undefined,
                    !.pendingOrders = Append(@, o),
                    !.processingOrders = SelectSeq(@, LAMBDA x : x # o)]
     ELSE s

\* dropOrderBack without `processedByBot = undefined`
dropOrderBack_keepsBotName(s, latestBot) ==
  LET o == findProcessedBy(s, s.heapBots[latestBot].name)
  IN IF o # 0
     THEN [queueOrder(s, o) EXCEPT !.processingOrders = SelectSeq(@, LAMBDA x : x # o)]
     ELSE s

\* the `if (latestBot.status === 'PROCESSING')` block of removeBot
dropOrderBack(s, latestBot) ==
  LET o == findProcessedBy(s, s.heapBots[latestBot].name)
  IN IF o # 0
     THEN LET s1 == [s EXCEPT !.heapOrders[o].processedByBot = Undefined]
              s2 == queueOrder(s1, o)
          IN [s2 EXCEPT !.processingOrders = SelectSeq(@, LAMBDA x : x # o)]
     ELSE s

\* removeBot that takes the last IDLE bot of the pool when there is one
removeBot_prefersIdle(s) ==
  IF Len(s.bots) = 0 THEN s
  ELSE LET idle == {i \in DOMAIN s.bots : s.heapBots[s.bots[i]].status = "IDLE"}
           latestBot == IF idle = {} THEN s.bots[Len(s.bots)]
                        ELSE s.bots[CHOOSE i \in idle : \A j \in idle : j <= i]
           s1 == IF s.heapBots[latestBot].status = "PROCESSING"
                 THEN dropOrderBack(s, latestBot)
                 ELSE s
       IN [s1 EXCEPT !.bots = SelectSeq(@, LAMBDA b : b # latestBot)]

\* removeBot that gives the id back (botId--) before looking at the pool
removeBot_decrementsId(s) ==
  LET s0 == [s EXCEPT !.botId = @ - 1]
  IN IF Len(s0.bots) = 0 THEN s0
     ELSE LET latestBot == s0.bots[Len(s0.bots)]
              s1 == IF s0.heapBots[latestBot].status = "PROCESSING"
                    THEN dropOrderBack(s0, latestBot)
                    ELSE s0
          IN [s1 EXCEPT !.bots = SelectSeq(@, LAMBDA b : b # latestBot)]

\* removeBot
removeBot(s) ==
  IF Len(s.bots) = 0 THEN s
  ELSE LET latestBot == s.bots[Len(s.bots)]
           s1 == IF s.heapBots[latestBot].status = "PROCESSING"
                 THEN dropOrderBack(s, latestBot)
                 ELSE s
       IN [s1 EXCEPT !.bots = SelectSeq(@, LAMBDA b : b # latestBot)]

\* the loop reading idleBots[0] without shifting it off the array
RECURSIVE assignLoop_noShift(_, _)
assignLoop_noShift(s, idleBots) ==
  IF Len(s.pendingOrders) > 0 /\ Len(idleBots) > 0
  THEN LET bot == Head(idleBots)
           order == Head(s.pendingOrders)
           s1 == [s EXCEPT !.pendingOrders = Tail(@),
                           !.heapBots[bot].status = "PROCESSING",
                           !.heapOrders[order].processedByBot = s.heapBots[bot].name,
                           !.processingOrders = Append(@, order),
                           !.timers = Append(@, [order |-> order, bot |-> bot])]
       IN assignLoop_noShift([s1 EXCEPT !.log = Append(@, [order |-> order, bot |-> bot,
                                                    pending |-> s1.pendingOrders,
                                                    heapOrders |-> s1.heapOrders])],
                             idleBots)
  ELSE s

\* the loop without `bot.status = 'PROCESSING'`
RECURSIVE assignLoop_botStaysIdle(_, _)
assignLoop_botStaysIdle(s, idleBots) ==
  IF Len(s.pendingOrders) > 0 /\ Len(idleBots) > 0
  THEN LET bot == Head(idleBots)
           order == Head(s.pendingOrders)
           s1 == [s EXCEPT !.pendingOrders = Tail(@),
                           !.heapOrders[order].processedByBot = s.heapBots[bot].name,
                           !.processingOrders = Append(@, order),
                           !.timers = Append(@, [order |-> order, bot |-> bot])]
       IN assignLoop_botStaysIdle([s1 EXCEPT !.log = Append(@, [order |-> order, bot |-> bot,
                                                    pending |-> s1.pendingOrders,
                                                    heapOrders |-> s1.heapOrders])],
                                  Tail(idleBots))
  ELSE s

\* the loop taking the bot with idleBots.pop(), the last idle bot
RECURSIVE assignLoop_popsLastBot(_, _)
assignLoop_popsLastBot(s, idleBots) ==
  IF Len(s.pendingOrders) > 0 /\ Len(idleBots) > 0
  THEN LET bot == idleBots[Len(idleBots)]
           order == Head(s.pendingOrders)
           s1 == [s EXCEPT !.pendingOrders = Tail(@),
                           !.heapBots[bot].status = "PROCESSING",
                           !.heapOrders[order].processedByBot = s.heapBots[bot].name,
                           !.processingOrders = Append(@, order),
                           !.timers = Append(@, [order |-> order, bot |-> bot])]
       IN assignLoop_popsLastBot([s1 EXCEPT !.log = Append(@, [order |-> order, bot |-> bot,
                                                    pending |-> s1.pendingOrders,
                                                    heapOrders |-> s1.heapOrders])],
                                 SubSeq(idleBots, 1, Len(idleBots) - 1))
  ELSE s

\* the while loop of processOrders over the local idleBots array
RECURSIVE assignLoop(_, _)
assignLoop(s, idleBots) ==
  IF Len(s.pendingOrders) > 0 /\ Len(idleBots) > 0
  THEN LET bot == Head(idleBots)
           order == Head(s.pendingOrders)
           s1 == [s EXCEPT !.pendingOrders = Tail(@),
                           !.heapBots[bot].status = "PROCESSING",
                           !.heapOrders[order].processedByBot = s.heapBots[bot].name,
                           !.processingOrders = Append(@, order),
                           !.timers = Append(@, [order |-> order, bot |-> bot])]
       IN assignLoop([s1 EXCEPT !.log = Append(@, [order |-> order, bot |-> bot,
                                                    pending |-> s1.pendingOrders,
                                                    heapOrders |-> s1.heapOrders])],
                     Tail(idleBots))
  ELSE s

\* processOrders
processOrders(s) ==
  assignLoop(s, SelectSeq(s.bots, LAMBDA b : s.heapBots[b].status = "IDLE"))

\* the guard without the processedByBot comparison
callbackProceeds_noOwnerCheck(s, order, bot) ==
  IndexOf(s.processingOrders, order) # -1

\* guard of the setTimeout callback: TRUE when the callback goes on to complete
callbackProceeds(s, order, bot) ==
  IF IndexOf(s.processingOrders, order) # -1
  THEN s.heapOrders[order].processedByBot = s.heapBots[bot].name
  ELSE FALSE

\* the callback without `bot.status = 'IDLE'`
completeOrder_botStaysBusy(s, order, bot) ==
  IF callbackProceeds(s, order, bot)
  THEN [s EXCEPT !.processingOrders = SpliceDelete(@, IndexOf(s.processingOrders, order)),
                 !.heapOrders[order].processedAt = Now,
                 !.completedOrders = Append(@, order)]
  ELSE s

\* the callback with splice(idx), which cuts processingOrders from idx to its end
completeOrder_spliceToEnd(s, order, bot) ==
  IF callbackProceeds(s, order, bot)
  THEN [s EXCEPT !.processingOrders = SubSeq(@, 1, IndexOf(s.processingOrders, order)),
                 !.heapOrders[order].processedAt = Now,
                 !.completedOrders = Append(@, order),
                 !.heapBots[bot].status = "IDLE"]
  ELSE s

\* the callback with completedOrders.unshift(order)
completeOrder_unshiftsCompleted(s, order, bot) ==
  IF callbackProceeds(s, order, bot)
  THEN [s EXCEPT !.processingOrders = SpliceDelete(@, IndexOf(s.processingOrders, order)),
                 !.heapOrders[order].processedAt = Now,
                 !.completedOrders = <<order>> \o @,
                 !.heapBots[bot].status = "IDLE"]
  ELSE s

\* the setTimeout callback up to `bot.status = 'IDLE'`
completeOrder(s, order, bot) ==
  IF callbackProceeds(s, order, bot)
  THEN [s EXCEPT !.processingOrders = SpliceDelete(@, IndexOf(s.processingOrders, order)),
                 !.heapOrders[order].processedAt = Now,
                 !.completedOrders = Append(@, order),
                 !.heapBots[bot].status = "IDLE"]
  ELSE s

\* what the deep watcher of [pendingOrders, bots] observes
watched(s) ==
  <<s.pendingOrders, [i \in DOMAIN s.pendingOrders |-> s.heapOrders[s.pendingOrders[i]]],
    s.bots, [i \in DOMAIN s.bots |-> s.heapBots[s.bots[i]]]>>

\* a watcher on pendingOrders only: changes of bots do not trigger processOrders
RECURSIVE flushWatcher_pendingOnly(_, _)
flushWatcher_pendingOnly(before, s) ==
  IF watched(before)[1] = watched(s)[1] /\ watched(before)[2] = watched(s)[2] THEN s
  ELSE flushWatcher_pendingOnly(s, processOrders(s))

\* watch([pendingOrders, bots], processOrders, { deep: true }): the callback
\* runs after a change, and again after the changes it makes itself
RECURSIVE flushWatcher(_, _)
flushWatcher(before, s) ==
  IF watched(before) = watched(s) THEN s
  ELSE flushWatcher(s, processOrders(s))

\* ---------------------------------------------------------------------
\* Steps

\* program fields of a state record (without the assignment log)
Core(s) == [s EXCEPT !.log = <<>>]

Commit(op, order, bot, mid, s) ==
  /\ pendingOrders' = s.pendingOrders
  /\ processingOrders' = s.processingOrders
  /\ completedOrders' = s.completedOrders
  /\ bots' = s.bots
  /\ normalOrderCount' = s.normalOrderCount
  /\ vipOrderCount' = s.vipOrderCount
  /\ botId' = s.botId
  /\ heapOrders' = s.heapOrders
  /\ heapBots' = s.heapBots
  /\ timers' = s.timers
  /\ hist' = [op |-> op, order |-> order, bot |-> bot, mid |-> Core(mid), log |-> s.log]
  /\ requeued' = requeued \cup {o \in DOMAIN heapOrders :
                     /\ \E i \in DOMAIN processingOrders : processingOrders[i] = o
                     /\ \E i \in DOMAIN mid.pendingOrders : mid.pendingOrders[i] = o}
  /\ fired' = IF op = "completion" THEN fired \cup {Head(timers)} ELSE fired

Init ==
  /\ pendingOrders = <<>>
  /\ processingOrders = <<>>
  /\ completedOrders = <<>>
  /\ bots = <<>>
  /\ normalOrderCount = 0
  /\ vipOrderCount = 0
  /\ botId = 0
  /\ heapOrders = <<>>
  /\ heapBots = <<>>
  /\ timers = <<>>
  /\ hist = [op |-> "init", order |-> 0, bot |-> 0, mid |-> State, log |-> <<>>]
  /\ requeued = {}
  /\ fired = {}

\* click on "New Normal Order"
AddNormalOrder ==
  /\ Len(heapOrders) < MaxOrders
  /\ \E mid \in {addNormalOrder(State)} :
       \E s \in {flushWatcher(State, mid)} :
          Commit("addNormalOrder", Len(mid.heapOrders), 0, mid, s)

\* click on "New VIP Order"
AddVipOrder ==
  /\ Len(heapOrders) < MaxOrders
  /\ \E mid \in {addVipOrder(State)} :
       \E s \in {flushWatcher(State, mid)} :
          Commit("addVipOrder", Len(mid.heapOrders), 0, mid, s)

\* click on "+ Bot"
AddBot ==
  /\ Len(heapBots) < MaxBots
  /\ \E mid \in {addBot(State)} :
       \E s \in {flushWatcher(State, mid)} :
          Commit("addBot", 0, Len(mid.heapBots), mid, s)

\* click on "- Bot"
RemoveBot ==
  \E mid \in {removeBot(State)} :
    \E s \in {flushWatcher(State, mid)} :
      LET target == IF Len(bots) = 0 THEN 0 ELSE bots[Len(bots)]
          o == IF target = 0 THEN 0 ELSE findProcessedBy(State, heapBots[target].name)
      IN Commit("removeBot", o, target, mid, s)

\* the oldest pending setTimeout callback fires
CompletionCallback ==
  /\ Len(timers) > 0
  /\ \E s0 \in {[State EXCEPT !.timers = Tail(@)]} :
       \E mid \in {completeOrder(s0, Head(timers).order, Head(timers).bot)} :
         \E s1 \in {IF callbackProceeds(s0, Head(timers).order, Head(timers).bot)
                    THEN processOrders(mid) ELSE mid} :
           \E s \in {flushWatcher(s0, s1)} :
              Commit("completion", Head(timers).order, Head(timers).bot, mid, s)

Next ==
  \/ AddNormalOrder
  \/ AddVipOrder
  \/ AddBot
  \/ RemoveBot
  \/ CompletionCallback

Spec == Init /\ [][Next]_vars

\* the event loop runs every timer callback that is due
LiveSpec == Spec /\ WF_vars(CompletionCallback)

\* ---------------------------------------------------------------------
\* Properties

Range(seq) == {seq[i] : i \in DOMAIN seq}

Count(seq, x) == Cardinality({i \in DOMAIN seq : seq[i] = x})

Created == 1..Len(heapOrders)

\* no removeBot has taken a bot out of the pool so far
NoBotRemoved == Len(bots) = botId

\* C1: every PROCESSING bot of the pool is named by exactly one processing
\* order, every processing order names exactly one PROCESSING bot of the
\* pool, and no two processing orders name the same bot.
NoDoubleAssignment ==
  /\ \A i \in DOMAIN bots :
       heapBots[bots[i]].status = "PROCESSING" =>
         Cardinality({j \in DOMAIN processingOrders :
            heapOrders[processingOrders[j]].processedByBot = heapBots[bots[i]].name}) = 1
  /\ \A j \in DOMAIN processingOrders :
       Cardinality({i \in DOMAIN bots :
          /\ heapBots[bots[i]].name = heapOrders[processingOrders[j]].processedByBot
          /\ heapBots[bots[i]].status = "PROCESSING"}) = 1
  /\ \A j, k \in DOMAIN processingOrders :
       j # k => heapOrders[processingOrders[j]].processedByBot
                  # heapOrders[processingOrders[k]].processedByBot

\* a busy bot was removed and the remaining bot took its order over, while
\* the callback of the removed bot is still to fire
NoDoubleAssignmentWitness ==
  /\ hist.op = "completion"
  /\ Len(processingOrders) = 1
  /\ ~NoBotRemoved
  /\ \E i \in DOMAIN timers :
       /\ timers[i].bot \notin Range(bots)
       /\ timers[i].order = processingOrders[1]

\* occurrences of order o over the three lists of state record s
Occurrences(s, o) ==
  Count(s.pendingOrders, o) + Count(s.processingOrders, o) + Count(s.completedOrders, o)

\* C2: every order ever created is exactly once in pendingOrders,
\* processingOrders and completedOrders together, after the handler body and
\* after the assignment pass; removing a busy bot puts its order back into
\* pendingOrders.
NoOrderLostOrDuplicated ==
  /\ Len(heapOrders) = normalOrderCount + vipOrderCount
  /\ \A o \in Created : Occurrences(State, o) = 1
  /\ \A o \in 1..Len(hist.mid.heapOrders) : Occurrences(hist.mid, o) = 1
  /\ Range(pendingOrders) \cup Range(processingOrders) \cup Range(completedOrders) = Created
  /\ (hist.op = "removeBot" /\ hist.order # 0) =>
        /\ hist.order \in Range(hist.mid.pendingOrders)
        /\ hist.order \in Range(pendingOrders) \cup Range(processingOrders)

\* a busy bot was removed and its order waits in pendingOrders again
NoOrderLostOrDuplicatedWitness ==
  /\ hist.op = "removeBot"
  /\ hist.order # 0
  /\ hist.order \in Range(pendingOrders)
  /\ Len(completedOrders) > 0

\* C3: a callback for (X, A) that fires when A is no longer in bots changes
\* no list, no order field and no bot: only the timer is consumed.
StaleCompletionDiscarded ==
  [][(hist'.op = "completion" /\ Head(timers).bot \notin Range(bots)) =>
       /\ UNCHANGED <<pendingOrders, processingOrders, completedOrders, bots,
                      heapOrders, heapBots, botId>>
       /\ timers' = Tail(timers)]_vars

\* the stale callback of a removed bot fired while its order was with another bot
StaleCompletionDiscardedWitness ==
  /\ hist.op = "completion"
  /\ hist.bot \notin Range(bots)
  /\ hist.order \in Range(processingOrders)
  /\ heapOrders[hist.order].processedAt = Undefined

\* from some point on the pool is non-empty and removeBot is not called
PoolStable == Len(bots) > 0 /\ hist.op # "removeBot"

\* C4: if eventually the pool stays non-empty and removeBot is no longer
\* called, every submitted order is eventually in completedOrders.
Conservation ==
  (<>[]PoolStable) =>
     \A k \in 1..MaxOrders :
        [](Len(heapOrders) >= k => <>(k \in Range(completedOrders)))

\* the first order was requeued by a removal and completed after the second
ConservationWitness ==
  /\ Len(completedOrders) >= 2
  /\ completedOrders[1] = 2
  /\ completedOrders[2] = 1
  /\ heapOrders[1].isVip = heapOrders[2].isVip
  /\ pendingOrders = <<>>
  /\ processingOrders = <<>>
  /\ Len(bots) > 0

\* every VIP order of pending list p (with order heap h) is before every normal one
VipFirst(p, h) ==
  \A i, j \in DOMAIN p : (h[p[i]].isVip /\ ~h[p[j]].isVip) => i < j

\* C5: every VIP order in pendingOrders is before every normal order in
\* pendingOrders, after each handler body, at each assignment and after each
\* step.
VipBeforeNormal ==
  /\ VipFirst(pendingOrders, heapOrders)
  /\ VipFirst(hist.mid.pendingOrders, hist.mid.heapOrders)
  /\ \A k \in DOMAIN hist.log : VipFirst(hist.log[k].pending, hist.log[k].heapOrders)

\* an interrupted VIP order was requeued ahead of a pending normal order
VipBeforeNormalWitness ==
  /\ hist.op = "removeBot"
  /\ hist.order # 0
  /\ heapOrders[hist.order].isVip
  /\ \E i \in DOMAIN pendingOrders : ~heapOrders[pendingOrders[i]].isVip
  /\ hist.order \in Range(pendingOrders)

\* pending list p keeps each class in ascending order number
ClassSorted(p, h) ==
  \A i, j \in DOMAIN p :
     (i < j /\ h[p[i]].isVip = h[p[j]].isVip) => h[p[i]].name[2] < h[p[j]].name[2]

\* C6: while no bot has been removed, the VIP orders of pendingOrders are in
\* ascending VIP-n order and the normal ones in ascending O-n order, and a
\* newly submitted order is placed after every pending order of its class.
SubmissionOrderKept ==
  NoBotRemoved =>
    /\ ClassSorted(pendingOrders, heapOrders)
    /\ ClassSorted(hist.mid.pendingOrders, hist.mid.heapOrders)
    /\ hist.op \in {"addNormalOrder", "addVipOrder"} =>
         LET p == hist.mid.pendingOrders
             h == hist.mid.heapOrders
         IN \A i, j \in DOMAIN p :
              (p[j] = hist.order /\ i # j /\ h[p[i]].isVip = h[p[j]].isVip) => i < j

\* a VIP order was submitted behind a pending VIP order while a bot was busy
SubmissionOrderKeptWitness ==
  /\ NoBotRemoved
  /\ hist.op = "addVipOrder"
  /\ Len(pendingOrders) = 2
  /\ pendingOrders[2] = hist.order
  /\ heapOrders[pendingOrders[1]].isVip
  /\ Len(processingOrders) = 1

NormalNeverAheadOfVip ==
  \A k \in DOMAIN hist.log :
     LET e == hist.log[k]
     IN ~e.heapOrders[e.order].isVip =>
          \A i \in DOMAIN e.pending : ~e.heapOrders[e.pending[i]].isVip

\* a bot finished a VIP order and took a normal order, more orders waiting
NormalNeverAheadOfVipWitness ==
  /\ hist.op = "completion"
  /\ heapOrders[hist.order].isVip
  /\ Len(hist.log) = 1
  /\ ~heapOrders[hist.log[1].order].isVip
  /\ Len(hist.log[1].pending) > 0

\* 1-based position the insertion policy gives order o in pending list p
PolicyPosition(p, h, o) ==
  IF h[o].isVip
  THEN IF \E i \in DOMAIN p : h[p[i]].isVip
       THEN (CHOOSE i \in DOMAIN p : h[p[i]].isVip /\ \A j \in DOMAIN p : h[p[j]].isVip => j <= i) + 1
       ELSE 1
  ELSE Len(p) + 1

RemoveFromEmptyPoolNoOp ==
  [][(hist'.op = "removeBot" /\ Len(bots) = 0) =>
       /\ UNCHANGED <<bots, pendingOrders, processingOrders, completedOrders, botId,
                      heapOrders, heapBots, timers, normalOrderCount, vipOrderCount>>
       /\ hist'.mid = State]_vars

\* removeBot ran on an empty pool while orders were waiting
RemoveFromEmptyPoolNoOpWitness ==
  /\ hist.op = "removeBot"
  /\ hist.bot = 0
  /\ bots = <<>>
  /\ Len(pendingOrders) > 0
  /\ botId > 0

NoMissedAssignment ==
  \/ pendingOrders = <<>>
  \/ \A i \in DOMAIN bots : heapBots[bots[i]].status = "PROCESSING"

\* orders wait while every bot of a non-empty pool is busy, after a bot was added
NoMissedAssignmentWitness ==
  /\ hist.op = "addBot"
  /\ Len(hist.log) = 1
  /\ Len(pendingOrders) > 0
  /\ Len(bots) = 2

\* C13: a second run of processOrders right after a run changes nothing and
\* schedules nothing, processOrders changes nothing in a state reached after a
\* step, and every processing order has exactly one pending callback for its
\* assignment.
ProcessOrdersIdempotent ==
  /\ Core(processOrders(State)) = State
  /\ LET r == Core(processOrders(hist.mid))
     IN Core(processOrders(r)) = r
  /\ \A i, j \in DOMAIN timers : i # j => timers[i] # timers[j]
  /\ \A k \in DOMAIN processingOrders :
       Cardinality({i \in DOMAIN timers :
          /\ timers[i].order = processingOrders[k]
          /\ heapBots[timers[i].bot].name
               = heapOrders[processingOrders[k]].processedByBot}) = 1

\* a run of processOrders assigned an order and left another one waiting
ProcessOrdersIdempotentWitness ==
  /\ Len(hist.log) = 1
  /\ Len(hist.mid.pendingOrders) >= 2
  /\ Len(pendingOrders) >= 1
  /\ Len(timers) >= 1

\* C14: in every state, running again a callback that has already run changes
\* nothing: no list, no order field and no bot status.
SecondFiringNoOp ==
  \A p \in fired :
     /\ ~callbackProceeds(State, p.order, p.bot)
     /\ completeOrder(State, p.order, p.bot) = State

\* the callback that completed an order has run, and its bot is busy with another order
SecondFiringNoOpWitness ==
  \E p \in fired :
     /\ p.order \in Range(completedOrders)
     /\ p.bot \in Range(bots)
     /\ heapBots[p.bot].status = "PROCESSING"
     /\ heapOrders[p.order].processedByBot = heapBots[p.bot].name

\* one bot was ever created and is in the pool, and the only orders are O-1 and O-2
OneBotTwoNormalOrders ==
  /\ botId = 1
  /\ Len(bots) = 1
  /\ Len(heapOrders) = 2
  /\ normalOrderCount = 2

\* C15: when the callback of (X, A) fires while X is in processingOrders with
\* processedByBot = A's name, X moves to the end of completedOrders with
\* processedAt set and A becomes IDLE; in the same step the head of
\* pendingOrders, if any, is assigned to a bot that was IDLE. With one bot and
\* the two normal orders O-1 and O-2, O-2 is PROCESSING only once O-1 is
\* completed.
ValidCompletion ==
  [][/\ (/\ hist'.op = "completion"
         /\ Head(timers).order \in Range(processingOrders)
         /\ heapOrders[Head(timers).order].processedByBot = heapBots[Head(timers).bot].name) =>
          LET X == Head(timers).order
              A == Head(timers).bot
              mid == hist'.mid
          IN /\ mid.completedOrders = Append(completedOrders, X)
             /\ mid.processingOrders = SelectSeq(processingOrders, LAMBDA o : o # X)
             /\ mid.heapOrders = [heapOrders EXCEPT ![X].processedAt = Now]
             /\ mid.heapOrders[X].processedAt # Undefined
             /\ mid.heapBots = [heapBots EXCEPT ![A].status = "IDLE"]
             /\ mid.pendingOrders = pendingOrders
             /\ completedOrders' = mid.completedOrders
             /\ IF pendingOrders # <<>>
                THEN /\ pendingOrders' = Tail(pendingOrders)
                     /\ processingOrders' = Append(mid.processingOrders, Head(pendingOrders))
                     /\ \E i \in DOMAIN mid.bots :
                          /\ mid.heapBots[mid.bots[i]].status = "IDLE"
                          /\ heapBots'[mid.bots[i]].status = "PROCESSING"
                          /\ heapOrders'[Head(pendingOrders)].processedByBot
                               = mid.heapBots[mid.bots[i]].name
                ELSE /\ pendingOrders' = <<>>
                     /\ processingOrders' = mid.processingOrders
                     /\ heapBots' = mid.heapBots
     /\ OneBotTwoNormalOrders' =>
          /\ 2 \in Range(processingOrders') \cup Range(completedOrders') =>
               1 \in Range(completedOrders')
          /\ 1 \notin Range(pendingOrders')]_vars

\* the only bot completed O-1 and took O-2 in the same step
ValidCompletionWitness ==
  /\ OneBotTwoNormalOrders
  /\ hist.op = "completion"
  /\ completedOrders = <<1>>
  /\ processingOrders = <<2>>
  /\ hist.mid.pendingOrders = <<2>>
  /\ hist.mid.heapBots[1].status = "IDLE"
  /\ heapBots[1].status = "PROCESSING"

\* C16: completedOrders only grows at its end and never holds an order
\* twice, a completed order never returns to pendingOrders or
\* processingOrders, and an order goes from processingOrders back to
\* pendingOrders only in a removeBot step that removes the bot the order names.
StatusMovesForward ==
  [][/\ Len(completedOrders') >= Len(completedOrders)
     /\ SubSeq(completedOrders', 1, Len(completedOrders)) = completedOrders
     /\ SubSeq(hist'.mid.completedOrders, 1, Len(completedOrders)) = completedOrders
     /\ \A i, j \in DOMAIN completedOrders' : i # j => completedOrders'[i] # completedOrders'[j]
     /\ \A o \in Range(completedOrders) :
          /\ o \notin Range(pendingOrders') \cup Range(processingOrders')
          /\ o \notin Range(hist'.mid.pendingOrders) \cup Range(hist'.mid.processingOrders)
          /\ heapOrders'[o] = heapOrders[o]
     /\ \A o \in Range(processingOrders) :
          o \in Range(hist'.mid.pendingOrders) \cup Range(pendingOrders') =>
             /\ hist'.op = "removeBot"
             /\ Len(bots) > 0
             /\ heapOrders[o].processedByBot = heapBots[bots[Len(bots)]].name
             /\ bots[Len(bots)] \notin Range(bots')]_vars

\* after two completions, a busy bot was removed and its order went back to pendingOrders
StatusMovesForwardWitness ==
  /\ hist.op = "removeBot"
  /\ hist.order # 0
  /\ hist.order \in Range(hist.mid.pendingOrders)
  /\ Len(completedOrders) = 2

\* in state record s, processedByBot is set exactly for the orders of
\* processingOrders and completedOrders
BotNameIffTaken(s) ==
  \A o \in DOMAIN s.heapOrders :
     s.heapOrders[o].processedByBot # Undefined
       <=> \E i \in DOMAIN s.processingOrders \cup DOMAIN s.completedOrders :
              \/ (i \in DOMAIN s.processingOrders /\ s.processingOrders[i] = o)
              \/ (i \in DOMAIN s.completedOrders /\ s.completedOrders[i] = o)

\* C17: an order has processedByBot set if and only if it is in
\* processingOrders or completedOrders, after each handler body and after each
\* step; a completed order keeps the name of the bot whose callback completed it.
ProcessedByBotIffTaken ==
  /\ BotNameIffTaken(State)
  /\ BotNameIffTaken(hist.mid)
  /\ \A i \in DOMAIN pendingOrders : heapOrders[pendingOrders[i]].processedByBot = Undefined
  /\ \A i \in DOMAIN completedOrders :
       \E p \in fired : /\ p.order = completedOrders[i]
                        /\ heapOrders[completedOrders[i]].processedByBot = heapBots[p.bot].name

\* a requeued order waits without a bot name while a completed order names a removed bot
ProcessedByBotIffTakenWitness ==
  /\ \E i \in DOMAIN pendingOrders : pendingOrders[i] \in requeued
  /\ \E i \in DOMAIN completedOrders :
       \A j \in DOMAIN bots :
          heapBots[bots[j]].name # heapOrders[completedOrders[i]].processedByBot

\* C18: bots get strictly increasing ids in creation order, removed bots
\* included, the name follows the id, botId is the last id given, and no two
\* bots of the pool share an id.
BotIdsIncrease ==
  /\ \A i, j \in DOMAIN heapBots : i < j => heapBots[i].id < heapBots[j].id
  /\ \A i \in DOMAIN heapBots : heapBots[i].name = BotName(heapBots[i].id) /\ heapBots[i].id <= botId
  /\ heapBots # <<>> => heapBots[Len(heapBots)].id = botId
  /\ \A i, j \in DOMAIN bots : i # j => heapBots[bots[i]].id # heapBots[bots[j]].id
  /\ \A i, j \in DOMAIN bots : i < j => heapBots[bots[i]].id < heapBots[bots[j]].id

\* a bot was added after the removal of another one
BotIdsIncreaseWitness ==
  /\ hist.op = "addBot"
  /\ Len(heapBots) = 2
  /\ Len(bots) = 1
  /\ heapBots[bots[1]].id = 2

\* the bots of the pool of state record s that are IDLE
IdleBotsOf(s) ==
  {s.bots[i] : i \in {j \in DOMAIN s.bots : s.heapBots[s.bots[j]].status = "IDLE"}}

\* C19: in a pass of processOrders the k-th assignment gives the k-th order
\* of pendingOrders to the IDLE bot of the pool with the k-th lowest id, and no
\* bot and no order is used twice.
AscendingIdAssignment ==
  /\ \A k \in DOMAIN hist.log :
       /\ k \in DOMAIN hist.mid.pendingOrders
       /\ hist.log[k].order = hist.mid.pendingOrders[k]
       /\ hist.log[k].bot \in IdleBotsOf(hist.mid)
       /\ Cardinality({b \in IdleBotsOf(hist.mid) :
             hist.mid.heapBots[b].id < hist.mid.heapBots[hist.log[k].bot].id}) = k - 1
       /\ heapOrders[hist.log[k].order].processedByBot = heapBots[hist.log[k].bot].name
       /\ heapBots[hist.log[k].bot].status = "PROCESSING"
  /\ \A j, k \in DOMAIN hist.log :
       j # k => hist.log[j].bot # hist.log[k].bot /\ hist.log[j].order # hist.log[k].order

\* an order arrived while two bots were IDLE and went to the one with the lower id
AscendingIdAssignmentWitness ==
  /\ Len(hist.log) = 1
  /\ Cardinality(IdleBotsOf(hist.mid)) = 2
  /\ \E b \in IdleBotsOf(hist.mid) : heapBots[b].id > heapBots[hist.log[1].bot].id

\* the (order, bot name) pairs of a set of callbacks
NamePairs(S) == {<<t.order, heapBots[t.bot].name>> : t \in S}

\* C20: an (order, bot name) pair is assigned at most once, and an order is
\* moved to completedOrders only by the single callback of its current
\* assignment, whose bot is still in the pool.
PairAssignedOnce ==
  [][/\ \A k \in DOMAIN hist'.log :
          /\ <<hist'.log[k].order, heapBots'[hist'.log[k].bot].name>>
                \notin NamePairs(fired \cup Range(timers))
          /\ \A b \in DOMAIN heapBots :
               b # hist'.log[k].bot => heapBots[b].name # heapBots'[hist'.log[k].bot].name
     /\ Len(completedOrders') > Len(completedOrders) =>
          /\ hist'.op = "completion"
          /\ completedOrders' = Append(completedOrders, Head(timers).order)
          /\ Head(timers).bot \in Range(bots)
          /\ Head(timers) \notin fired
          /\ heapOrders[Head(timers).order].processedByBot = heapBots[Head(timers).bot].name
          /\ Cardinality({i \in DOMAIN timers :
                <<timers[i].order, heapBots[timers[i].bot].name>>
                   = <<Head(timers).order, heapBots[Head(timers).bot].name>>}) = 1
          /\ <<Head(timers).order, heapBots[Head(timers).bot].name>> \notin NamePairs(fired)]_vars

\* an order was completed by its second assignment after the callback of the first one ran
PairAssignedOnceWitness ==
  /\ hist.op = "completion"
  /\ hist.order \in Range(completedOrders)
  /\ \E p \in fired : /\ p.order = hist.order
                      /\ p.bot # hist.bot
                      /\ p.bot \notin Range(bots)

====
